---- MODULE Spec2Model ----
(***************************************************************************)
(* deoxy: the Pin lifecycle / waveform engine (class Pin with PinState)    *)
(* and the scheduling layer (lib/schedule.js).                             *)
(*                                                                         *)
(* One action is one stretch of code that runs without interruption: a     *)
(* call of the caller up to its return, one promise reaction (microtask),  *)
(* or the callback of one timer.  Reactions run oldest first, and all of   *)
(* them before any timer.  The hardware library rpio and the platform      *)
(* scheduler node-schedule are the environment: every rpio call may throw, *)
(* chosen by the input failAt, the index of the call of the step that      *)
(* throws (0: none).                                                       *)
(***************************************************************************)
EXTENDS Integers, Sequences, FiniteSets, TLC

VARIABLES
    number,     \* Pin instance -> this.number
    state,      \* Pin instance -> this.state
    hw,         \* Pin instance -> the hardware line of its number (rpio's view)
    timers,     \* pending setTimeout callbacks of setHighFor, in arming order
    now,        \* Date.now(), in ms
    reactions,  \* the promise reactions queued (microtasks), oldest first
    hwLog,      \* the rpio calls made so far by the operation of the last step
                \* (after its timer: the calls made since the timer fired)
    result,     \* the promise returned by the last call / settled by the last step
    registered, \* the jobs registered with the platform scheduler, in order
    callbacks,  \* the invocations of the callback made by the last schedule call
    lastCall,   \* the last schedule call and its arguments
    fired,      \* per registered job: how often the platform has invoked its
                \* event, and the earliest time its schedule call asked for
    waveform    \* the waveform last computed: cycles, duration, antiPulseWidth

vars == <<number, state, hw, timers, reactions, now, hwLog, result, registered, callbacks,
          lastCall, fired, waveform>>
pinVars == <<number, state, hw, timers, reactions, hwLog, result>>
schedVars == <<now, registered, callbacks, lastCall, fired>>

----------------------------------------------------------------------------
(* Bounds of the model *)

MaxWait == 2        \* a pending timer's waiting time is counted up to here
MaxTimers == 1      \* setHighFor timers pending at once, per Pin
MaxReactions == 2   \* promise reactions queued at once
MaxTime == 2        \* Date.now() is advanced up to here
MaxJobs == 2        \* jobs registered with the platform scheduler
MaxLen == 2         \* length of the lists given to the batch schedule calls
MaxPulseWidth == 3  \* pulseWidth (ms) of the waveforms computed on their own
MaxDuration == 1005 \* duration (ms) of the waveforms computed on their own
MaxCalls == 4       \* rpio calls of a waveform's loop of which one may throw

----------------------------------------------------------------------------
(* Pin: constants *)

PinState == [unknown |-> -1, closed |-> 0, open |-> 1]

\* The one pin number pwm() accepts.
HardwarePWMPin == 12

\* The pin the routes use when the request names none.
DefaultPin == 7

\* The numbers a Pin is constructed with.
PinNumbers == {DefaultPin, HardwarePWMPin}

\* The Pin instances
Pins == DOMAIN number

PWMRange == 1024

\* Inputs
Booleans == {TRUE, FALSE}
\* <<duration, perSecond>> of setHighFor: 1 ms, 2 ms, and half a ms
Delays == {<<1, 1000>>, <<1, 500>>, <<1, 2000>>}
\* <<pulseWidth, frequency, duration>> of doPWM and pwm: two cycles, no room
\* for the low time, and the degenerate frequencies and durations
Waveforms == {<<1, 500, 3>>, <<2, 500, 3>>, <<1, 0, 3>>, <<1, 500, 0>>, <<1, -500, 3>>}
\* the reset behaviour given to close: omitted, or rpio.PIN_PRESERVE
Thens == {"undefined", "PIN_PRESERVE"}

NoResult == [op |-> "none", pin |-> 0, phase |-> "none", status |-> "none",
             value |-> "none", args |-> <<>>]

\* A hardware line: the mode it is claimed in ("none": not claimed) and the
\* level it was last driven to ("float": not driven since construction or reset).
HwIdle == [mode |-> "none", level |-> "float"]

Claimed(h) == h.mode # "none"

----------------------------------------------------------------------------
(* Promise plumbing *)

\* The first argument the Promise constructor hands its executor fulfils the
\* promise, the second rejects it, whatever the executor names them.
ExecutorFirst(v) == [status |-> "fulfilled", value |-> v]
ExecutorSecond(v) == [status |-> "rejected", value |-> v]

\* The value a turn settles with: the Pin on success, the thrown cause otherwise.
Cause(m) == IF m.err = "none" THEN "pin" ELSE m.err

----------------------------------------------------------------------------
(* The rpio calls.  m is the step in progress: the Pin's number and state,  *)
(* the hardware line, the calls its operation has made so far (base of them *)
(* before this step), the error thrown (if any), the microseconds slept and *)
(* failAt, the index of the rpio call of this step that throws (0: none).   *)

Turn(p, failAt) ==
    [number |-> number[p], state |-> state[p], hw |-> hw[p], log |-> <<>>, base |-> 0,
     err |-> "none", slept |-> 0, failAt |-> failAt]

NextThrows(m) == Len(m.log) - m.base + 1 = m.failAt

Logged(m, name, arg) ==
    Append(m.log, [call |-> name, pin |-> m.number, arg |-> arg,
                   ok |-> ~NextThrows(m), claimed |-> Claimed(m.hw)])

RpioCall(m, name, arg, after) ==
    IF NextThrows(m)
    THEN [m EXCEPT !.log = Logged(m, name, arg), !.err = "hwerror"]
    ELSE [m EXCEPT !.log = Logged(m, name, arg), !.hw = after]

RpioOpen(m, mode) ==
    RpioCall(m, "open", mode, [m.hw EXCEPT !.mode = mode])

RpioClose(m, then) ==
    RpioCall(m, "close", then,
             [mode |-> "none",
              level |-> IF then = "PIN_PRESERVE" THEN m.hw.level ELSE "float"])

RpioWrite(m, level) ==
    RpioCall(m, "write", level, [m.hw EXCEPT !.level = level])

RpioPwmSetClockDivider(m, div) == RpioCall(m, "pwmSetClockDivider", div, m.hw)

RpioPwmSetRange(m, range) == RpioCall(m, "pwmSetRange", range, m.hw)

RpioPwmSetData(m, data) ==
    RpioCall(m, "pwmSetData", data,
             [m.hw EXCEPT !.level = IF data = 0 THEN "LOW" ELSE "HIGH"])

----------------------------------------------------------------------------
(* Pin: isOpen, isClosed, open, close as they act inside a turn *)

isOpen(m) == m.state = PinState.open

isClosed(m) == m.state = PinState.closed

PinOpen(m, force) ==
    IF isOpen(m) /\ ~force THEN m
    ELSE LET r == RpioOpen(m, "OUTPUT")
         IN  IF r.err = "none"
             THEN [r EXCEPT !.state = PinState.open]
             ELSE [r EXCEPT !.state = PinState.unknown]

\* then = "undefined" stands for the omitted argument.
PinClose(m, then, force) ==
    IF isClosed(m) /\ ~force THEN m
    ELSE RpioClose(m, IF then = "undefined" THEN "PIN_RESET" ELSE then)

\* A step of a promise chain: skipped once an earlier step has thrown.
Then(m, next) == IF m.err = "none" THEN next ELSE m

----------------------------------------------------------------------------
(* JavaScript numbers.  The waveform arithmetic of doPWM and pwm is done in *)
(* IEEE 754 binary64: every *, /, + and - rounds its exact result to the   *)
(* nearest number of 53 significant bits, ties to even.  A natural number  *)
(* of any size is a sequence of limbs below LimbBase, least significant    *)
(* first; a positive double is m * 2^e with m of exactly 53 bits.  The     *)
(* waveforms computed here are far from overflow and underflow.            *)

LimbBits == 15

LimbBase == 32768

MantissaBits == 53

RECURSIVE Pow2(_)
Pow2(n) == IF n = 0 THEN 1 ELSE 2 * Pow2(n - 1)

RECURSIVE BigOf(_)
BigOf(k) == IF k = 0 THEN <<>> ELSE <<k % LimbBase>> \o BigOf(k \div LimbBase)

RECURSIVE BigToInt(_)
BigToInt(a) == IF a = <<>> THEN 0 ELSE a[1] + LimbBase * BigToInt(Tail(a))

RECURSIVE BigTrim(_)
BigTrim(a) ==
    IF a # <<>> /\ a[Len(a)] = 0 THEN BigTrim(SubSeq(a, 1, Len(a) - 1)) ELSE a

Limb(a, i) == IF i \in DOMAIN a THEN a[i] ELSE 0

RECURSIVE BigAddFrom(_, _, _, _)
BigAddFrom(a, b, i, carry) ==
    IF i > Len(a) /\ i > Len(b)
    THEN IF carry = 0 THEN <<>> ELSE <<carry>>
    ELSE LET t == Limb(a, i) + Limb(b, i) + carry
         IN  <<t % LimbBase>> \o BigAddFrom(a, b, i + 1, t \div LimbBase)

BigAdd(a, b) == BigAddFrom(a, b, 1, 0)

\* a - b for a >= b
RECURSIVE BigSubFrom(_, _, _, _)
BigSubFrom(a, b, i, borrow) ==
    IF i > Len(a) THEN <<>>
    ELSE LET t == Limb(a, i) - Limb(b, i) - borrow
         IN  IF t < 0
             THEN <<t + LimbBase>> \o BigSubFrom(a, b, i + 1, 1)
             ELSE <<t>> \o BigSubFrom(a, b, i + 1, 0)

BigSub(a, b) == BigTrim(BigSubFrom(a, b, 1, 0))

\* a * k for a limb k
RECURSIVE BigMulLimbFrom(_, _, _, _)
BigMulLimbFrom(a, k, i, carry) ==
    IF i > Len(a)
    THEN IF carry = 0 THEN <<>> ELSE <<carry>>
    ELSE LET t == a[i] * k + carry
         IN  <<t % LimbBase>> \o BigMulLimbFrom(a, k, i + 1, t \div LimbBase)

BigMulLimb(a, k) == BigTrim(BigMulLimbFrom(a, k, 1, 0))

RECURSIVE BigMulFrom(_, _, _)
BigMulFrom(a, b, j) ==
    IF j > Len(b) THEN <<>>
    ELSE BigAdd(BigMulLimb(a, b[j]), <<0>> \o BigMulFrom(a, b, j + 1))

BigMul(a, b) == BigTrim(BigMulFrom(a, b, 1))

\* quotient and remainder of a by a limb k > 0, from the top limb down
RECURSIVE BigDivLimbFrom(_, _, _, _)
BigDivLimbFrom(a, k, i, rem) ==
    IF i = 0 THEN [q |-> <<>>, r |-> rem]
    ELSE LET t == rem * LimbBase + a[i]
             low == BigDivLimbFrom(a, k, i - 1, t % k)
         IN  [q |-> Append(low.q, t \div k), r |-> low.r]

BigDivLimb(a, k) ==
    LET d == BigDivLimbFrom(a, k, Len(a), 0)
    IN  [q |-> BigTrim(d.q), r |-> d.r]

\* -1, 0, 1 as a < b, a = b, a > b (no leading zero limbs)
RECURSIVE BigCmpFrom(_, _, _)
BigCmpFrom(a, b, i) ==
    IF i = 0 THEN 0
    ELSE IF a[i] < b[i] THEN -1
    ELSE IF a[i] > b[i] THEN 1
    ELSE BigCmpFrom(a, b, i - 1)

BigCmp(a, b) ==
    IF Len(a) < Len(b) THEN -1
    ELSE IF Len(a) > Len(b) THEN 1
    ELSE BigCmpFrom(a, b, Len(a))

RECURSIVE Bits(_)
Bits(k) == IF k = 0 THEN 0 ELSE 1 + Bits(k \div 2)

BigBits(a) == IF a = <<>> THEN 0 ELSE LimbBits * (Len(a) - 1) + Bits(a[Len(a)])

\* a * 2^n
BigShl(a, n) ==
    IF a = <<>> THEN <<>>
    ELSE BigMulLimb([i \in 1 .. n \div LimbBits |-> 0] \o a, Pow2(n % LimbBits))

\* floor(a / 2^n)
BigShr(a, n) ==
    IF Len(a) <= n \div LimbBits THEN <<>>
    ELSE BigDivLimb(SubSeq(a, n \div LimbBits + 1, Len(a)), Pow2(n % LimbBits)).q

DZero == [m |-> <<>>, e |-> 0]

\* The double nearest to n * 2^e (a little more than that if sticky),
\* ties to even.
DRound(n, e, sticky) ==
    LET bits == BigBits(n)
    IN  IF bits = 0 THEN DZero
        ELSE IF bits <= MantissaBits
        THEN [m |-> BigShl(n, MantissaBits - bits), e |-> e - (MantissaBits - bits)]
        ELSE LET sh == bits - MantissaBits
                 q == BigShr(n, sh)
                 rem == BigSub(n, BigShl(q, sh))
                 half == BigShl(<<1>>, sh - 1)
                 c == BigCmp(rem, half)
                 up == c > 0 \/ (c = 0 /\ (sticky \/ q[1] % 2 = 1))
                 r == IF up THEN BigAdd(q, <<1>>) ELSE q
             IN  IF BigBits(r) > MantissaBits
                 THEN [m |-> BigShr(r, 1), e |-> e + sh + 1]
                 ELSE [m |-> r, e |-> e + sh]

\* The double of a whole number k >= 0
DInt(k) == DRound(BigOf(k), 0, FALSE)

Min(a, b) == IF a < b THEN a ELSE b

\* x + y
DAdd(x, y) ==
    IF x.m = <<>> THEN y
    ELSE IF y.m = <<>> THEN x
    ELSE LET e == Min(x.e, y.e)
         IN  DRound(BigAdd(BigShl(x.m, x.e - e), BigShl(y.m, y.e - e)), e, FALSE)

\* -1, 0, 1 as x < y, x = y, x > y
DCmp(x, y) ==
    IF x.m = <<>> THEN (IF y.m = <<>> THEN 0 ELSE -1)
    ELSE IF y.m = <<>> THEN 1
    ELSE LET e == Min(x.e, y.e)
         IN  BigCmp(BigShl(x.m, x.e - e), BigShl(y.m, y.e - e))

\* x - y for x >= y
DSub(x, y) ==
    IF y.m = <<>> THEN x
    ELSE LET e == Min(x.e, y.e)
         IN  DRound(BigSub(BigShl(x.m, x.e - e), BigShl(y.m, y.e - e)), e, FALSE)

\* x * y
DMul(x, y) == DRound(BigMul(x.m, y.m), x.e + y.e, FALSE)

\* the greatest digit q below LimbBase with q * b <= t, found bit by bit
RECURSIVE BigDigit(_, _, _, _)
BigDigit(t, b, j, q) ==
    IF j < 0 THEN q
    ELSE IF BigCmp(BigMulLimb(b, q + Pow2(j)), t) <= 0
    THEN BigDigit(t, b, j - 1, q + Pow2(j))
    ELSE BigDigit(t, b, j - 1, q)

\* quotient and remainder of a by b # 0 (t < LimbBase * b), from the top limb down
RECURSIVE BigDivFrom(_, _, _, _)
BigDivFrom(a, b, i, rem) ==
    IF i = 0 THEN [q |-> <<>>, r |-> rem]
    ELSE LET t == BigTrim(<<a[i]>> \o rem)
             digit == BigDigit(t, b, LimbBits - 1, 0)
             low == BigDivFrom(a, b, i - 1, BigSub(t, BigMulLimb(b, digit)))
         IN  [q |-> Append(low.q, digit), r |-> low.r]

BigDiv(a, b) ==
    LET d == BigDivFrom(a, b, Len(a), <<>>)
    IN  [q |-> BigTrim(d.q), r |-> d.r]

\* x / k for a whole number k > 0
DDiv(x, k) ==
    IF k < LimbBase
    THEN LET d == BigDivLimb(BigShl(x.m, 2 * LimbBits), k)
         IN  DRound(d.q, x.e - 2 * LimbBits, d.r # 0)
    ELSE LET d == BigDiv(BigShl(x.m, 3 * LimbBits), BigOf(k))
         IN  DRound(d.q, x.e - 3 * LimbBits, d.r # <<>>)

\* Math.floor(x), x below 2^31
DFloor(x) == IF x.e >= 0 THEN BigToInt(BigShl(x.m, x.e)) ELSE BigToInt(BigShr(x.m, -x.e))

\* Math.ceil(x), x below 2^31
DCeil(x) ==
    IF x.e >= 0 THEN BigToInt(BigShl(x.m, x.e))
    ELSE LET q == BigShr(x.m, -x.e)
         IN  IF BigCmp(BigShl(q, -x.e), x.m) = 0 THEN BigToInt(q) ELSE BigToInt(q) + 1

\* let cycles = Math.floor(...): a slip
CyclesFloorOf(frequency, duration) ==
    DFloor(DDiv(DMul(DInt(frequency), DInt(duration)), 1000))

\* let cycles = Math.ceil(frequency * duration / 1000)
CyclesOf(frequency, duration) ==
    DCeil(DDiv(DMul(DInt(frequency), DInt(duration)), 1000))

\* duration = cycles / frequency * 1000
DurationOf(cycles, frequency) == DMul(DDiv(DInt(cycles), frequency), DInt(1000))

----------------------------------------------------------------------------
(* Waveform arithmetic of doPWM and pwm, for a pulseWidth of any value and  *)
(* a whole frequency and duration of either sign.  A JavaScript number is  *)
(* NaN, or a sign and the double of its magnitude (rounding is symmetric   *)
(* about zero).  Every division by zero in these lines is 0 / 0, so no     *)
(* infinity occurs.                                                        *)
(* Each line's value is computed before the next line reads it (Once).     *)

PWMClockDivider == 64

Abs(k) == IF k < 0 THEN -k ELSE k

NaN == [nan |-> TRUE, neg |-> FALSE, d |-> DZero]

Number(neg, d) == [nan |-> FALSE, neg |-> neg /\ d.m # <<>>, d |-> d]

NumberOf(k) == Number(k < 0, DInt(Abs(k)))

\* The number read from the decimal n / q, q > 0 (1.5 is 3 / 2)
Decimal(n, q) == Number(n < 0, DDiv(DInt(Abs(n)), q))

\* x - y
NumberSub(x, y) ==
    IF x.nan \/ y.nan THEN NaN
    ELSE IF x.neg # y.neg THEN Number(x.neg, DAdd(x.d, y.d))
    ELSE IF DCmp(x.d, y.d) >= 0 THEN Number(x.neg, DSub(x.d, y.d))
    ELSE Number(~x.neg, DSub(y.d, x.d))

\* let cycles = Math.ceil(frequency * duration / 1000)
Cycles(frequency, duration) ==
    IF frequency = 0 \/ duration = 0 THEN 0
    ELSE IF (frequency < 0) = (duration < 0)
    THEN CyclesOf(Abs(frequency), Abs(duration))
    ELSE -DFloor(DDiv(DMul(DInt(Abs(frequency)), DInt(Abs(duration))), 1000))

\* F(v), with v computed before F reads it
Once(v, F(_)) == CHOOSE y \in {F(x) : x \in {v}} : TRUE

\* let cycles = ...; duration = cycles / frequency * 1000;
\* let antiPulseWidth = (duration - cycles * pulseWidth) / cycles;
\* lines 82-84 (109-111 in pwm), one after the other
Computed(pulseWidth, frequency, duration) ==
    Once(Cycles(frequency, duration), LAMBDA cycles :
    Once(IF frequency = 0 THEN NaN
         ELSE Number((cycles < 0) # (frequency < 0),
                     DurationOf(Abs(cycles), Abs(frequency))), LAMBDA actual :
    Once(NumberSub(actual, Number((cycles < 0) # pulseWidth.neg,
                                  DMul(DInt(Abs(cycles)), pulseWidth.d))),
         LAMBDA low :
             [cycles |-> cycles,
              duration |-> actual,
              antiPulseWidth |->
                  IF low.nan \/ cycles = 0 THEN NaN
                  ELSE Number(low.neg # (cycles < 0), DDiv(low.d, Abs(cycles)))])))

\* duration, after line 83
ActualDuration(frequency, duration) ==
    Computed(NumberOf(0), frequency, duration).duration

\* antiPulseWidth, after line 84
AntiPulseWidth(pulseWidth, frequency, duration) ==
    Computed(pulseWidth, frequency, duration).antiPulseWidth

\* the same for the Waveforms the specifications draw from, computed once
WaveformsComputed == [w \in Waveforms |-> Computed(NumberOf(w[1]), w[2], w[3])]

\* if(antiPulseWidth <= 0) throw ...: false for NaN
NoRoomForLow(antiPulseWidth) ==
    ~antiPulseWidth.nan /\ (antiPulseWidth.neg \/ antiPulseWidth.d.m = <<>>)

NoWaveform ==
    [args |-> <<>>, done |-> FALSE, cycles |-> 0, duration |-> NumberOf(0),
     antiPulseWidth |-> NumberOf(0), positive |-> FALSE]

\* The arguments of a call, nothing computed yet
Asked(pulseWidth, frequency, duration) ==
    [NoWaveform EXCEPT !.args = <<pulseWidth, frequency, duration>>]

\* The three lines that doPWM and pwm compute before their loop, and the
\* test of antiPulseWidth, for the pulseWidth, frequency and duration asked.
computeWaveform ==
    /\ waveform.args # <<>>
    /\ ~waveform.done
    /\ \E c \in {Computed(waveform.args[1], waveform.args[2], waveform.args[3])} :
           waveform' = [args |-> waveform.args,
                        done |-> TRUE,
                        cycles |-> c.cycles,
                        duration |-> c.duration,
                        antiPulseWidth |-> c.antiPulseWidth,
                        positive |-> ~c.antiPulseWidth.nan
                                     /\ ~NoRoomForLow(c.antiPulseWidth)]
    /\ UNCHANGED <<pinVars, schedVars>>

\* The microseconds rpio.msleep(n) blocks the thread for (n >= 0 in ms; NaN
\* is no time).
Microseconds(n) == IF n.nan \/ n.neg THEN 0 ELSE DFloor(DMul(n.d, DInt(1000)))

\* rpio.msleep(n)
RpioMsleep(m, n) == [m EXCEPT !.slept = @ + Microseconds(n)]

\* The loops: high and low are pulseWidth and antiPulseWidth.  The iterations from i on run in two halves, one
\* after the other, so that the evaluation does not nest once per cycle.

\* { write HIGH; msleep(pulseWidth); write LOW; msleep(antiPulseWidth) }
SoftCycle(m, high, low) ==
    LET a == RpioWrite(m, "HIGH")
        b == Then(a, RpioMsleep(a, high))
        c == Then(b, RpioWrite(b, "LOW"))
    IN  Then(c, RpioMsleep(c, low))

\* { pwmSetData(n, 1024); msleep(pulseWidth); rpio.write(n, 0); msleep(antiPulseWidth) }
HardCycle(m, high, low) ==
    LET a == RpioPwmSetData(m, PWMRange)
        b == Then(a, RpioMsleep(a, high))
        c == Then(b, RpioWrite(b, "LOW"))
    IN  Then(c, RpioMsleep(c, low))

\* A slip: for(let i = 0; i <= cycles; i++)
RECURSIVE SoftCyclesInclusive(_, _, _, _, _)
SoftCyclesInclusive(m, i, cycles, high, low) ==
    IF i > cycles \/ m.err # "none" THEN m
    ELSE IF i = cycles THEN SoftCycle(m, high, low)
    ELSE LET half == (i + cycles) \div 2
         IN  SoftCyclesInclusive(SoftCyclesInclusive(m, i, half, high, low),
                                 half + 1, cycles, high, low)

\* for(let i = 0; i < cycles; i++) { ... }, from iteration i on
RECURSIVE SoftCycles(_, _, _, _, _)
SoftCycles(m, i, cycles, high, low) ==
    IF i >= cycles \/ m.err # "none" THEN m
    ELSE IF i + 1 = cycles THEN SoftCycle(m, high, low)
    ELSE LET half == (i + cycles) \div 2
         IN  SoftCycles(SoftCycles(m, i, half, high, low), half, cycles, high, low)

\* for(let i = 0; i < cycles; i++) { ... } of pwm, from iteration i on
RECURSIVE HardCycles(_, _, _, _, _)
HardCycles(m, i, cycles, high, low) ==
    IF i >= cycles \/ m.err # "none" THEN m
    ELSE IF i + 1 = cycles THEN HardCycle(m, high, low)
    ELSE LET half == (i + cycles) \div 2
         IN  HardCycles(HardCycles(m, i, half, high, low), half, cycles, high, low)

\* The body of doPWM's first then-callback, and of pwm after configuration:
\* lines 82-84, the check and the loop.
Waveform(m, hard, pulseWidth, frequency, duration) ==
    Once(IF <<pulseWidth, frequency, duration>> \in Waveforms
         THEN WaveformsComputed[<<pulseWidth, frequency, duration>>]
         ELSE Computed(NumberOf(pulseWidth), frequency, duration), LAMBDA c :
             IF NoRoomForLow(c.antiPulseWidth) THEN [m EXCEPT !.err = "configerror"]
             ELSE IF hard
             THEN HardCycles(m, 0, c.cycles, NumberOf(pulseWidth), c.antiPulseWidth)
             ELSE SoftCycles(m, 0, c.cycles, NumberOf(pulseWidth), c.antiPulseWidth))

\* let ms = duration * 1000 / perSecond; setTimeout(..., ms): the delay the
\* timer is armed with.  setTimeout takes the whole ms of it, and 1 ms when
\* it is below 1 or not a number (0 / 0) or infinite (n / 0).
DelayMs(duration, perSecond) ==
    IF perSecond = 0 \/ duration = 0 \/ (duration < 0) # (perSecond < 0) THEN 1
    ELSE LET ms == (Abs(duration) * 1000) \div Abs(perSecond)
         IN  IF ms < 1 THEN 1 ELSE ms

\* A slip: the pin check left out.
PwmSupportedAnyPin(n) == TRUE

\* if(this.number !== 12) return reject(...)
PwmSupported(n) == n = HardwarePWMPin

----------------------------------------------------------------------------
(* The turns of Pin.  A call runs the executor of the promise it returns;   *)
(* the callbacks given to then and catch run later, one promise reaction    *)
(* (microtask) at a time, oldest first, after the caller's own code.  A     *)
(* reaction whose promise has no callback for the outcome only passes the   *)
(* outcome on to the next promise of the chain, one reaction later.         *)

\* A slip: the state kept in one place for every Pin
CommitShared(p, m, res) ==
    /\ state' = [q \in DOMAIN state |-> m.state]
    /\ hw' = [hw EXCEPT ![p] = m.hw]
    /\ hwLog' = m.log
    /\ result' = res

Commit(p, m, res) ==
    /\ state' = [state EXCEPT ![p] = m.state]
    /\ hw' = [hw EXCEPT ![p] = m.hw]
    /\ hwLog' = m.log
    /\ result' = res

\* The same for a step of a Pin made by a static method: the Pin is nobody
\* else's, its state travels with its operation.
CommitOf(c, m, res) ==
    IF c.transient
    THEN /\ hw' = [hw EXCEPT ![c.pin] = m.hw]
         /\ hwLog' = m.log
         /\ result' = res
         /\ state' = state
    ELSE Commit(c.pin, m, res)

\* The name an operation goes by in result: Pin.write for the static form.
StaticName(op) ==
    CASE op = "write" -> "Pin.write"
      [] op = "setHighFor" -> "Pin.setHighFor"
      [] op = "doPWM" -> "Pin.doPWM"

OpName(c) == IF c.transient THEN StaticName(c.op) ELSE c.op

Settled(op, p, phase, outcome, args) ==
    [op |-> op, pin |-> p, phase |-> phase, status |-> outcome.status,
     value |-> outcome.value, args |-> args]

PendingIn(op, p, phase, args) ==
    [op |-> op, pin |-> p, phase |-> phase, status |-> "pending",
     value |-> "none", args |-> args]

Pending(op, p, args) == PendingIn(op, p, "call", args)

\* The caller's code is running: no reaction is queued, or the last step was
\* a call and the reactions queued have not started.
Calling == reactions = <<>> \/ result.phase = "call"

\* The caller has awaited everything it started.
Awaited == reactions = <<>>

\* open(force = false)
open(p, force, failAt) ==
    LET m == PinOpen(Turn(p, failAt), force)
        outcome == IF m.err = "none" THEN ExecutorFirst("pin")
                   ELSE ExecutorSecond(m.err)
    IN  /\ Commit(p, m, Settled("open", p, "call", outcome, <<>>))
        /\ UNCHANGED <<number, timers, reactions, schedVars, waveform>>

\* close(then, force = false)
close(p, then, force, failAt) ==
    LET m == PinClose(Turn(p, failAt), then, force)
        outcome == IF m.err = "none" THEN ExecutorFirst("pin")
                   ELSE ExecutorSecond(m.err)
    IN  /\ Commit(p, m, Settled("close", p, "call", outcome, <<force>>))
        /\ UNCHANGED <<number, timers, reactions, schedVars, waveform>>

\* new Pin(pin): a Pin of its own on the line of pin, state unknown
NewPin(p, failAt) == [Turn(p, failAt) EXCEPT !.state = PinState.unknown]

\* A queued reaction of an operation: the callback it will run (stage), after
\* wait reactions that only pass the outcome on; the error thrown so far, the
\* rpio calls the operation has made, and the Pin it runs on.
Queued(op, p, phase, stage, wait, m, args, transient) ==
    [op |-> op, pin |-> p, phase |-> phase, stage |-> stage, wait |-> wait,
     err |-> m.err, log |-> m.log, args |-> args, transient |-> transient,
     tstate |-> IF transient THEN m.state ELSE PinState.unknown]

\* The turn in which a queued reaction, or a timer, of the operation c runs.
TurnOf(c, failAt) ==
    [number |-> number[c.pin],
     state |-> IF c.transient THEN c.tstate ELSE state[c.pin],
     hw |-> hw[c.pin], log |-> c.log, base |-> Len(c.log),
     err |-> "none", slept |-> 0, failAt |-> failAt]

\* return this.open().then(...)...: the executor of write, setHighFor and
\* doPWM.  open() runs at once; the first then-callback is queued.  When
\* open() has rejected, the rejection is passed down the chain to its catch,
\* the last of skip + 1 reactions.
Begin(op, p, args, m0, transient, skip) ==
    LET m == PinOpen(m0, FALSE)
        c == IF m.err = "none"
             THEN Queued(op, p, "reaction", "drive", 0, m, args, transient)
             ELSE Queued(op, p, "reaction", "settle", skip, m, args, transient)
    IN  /\ Len(reactions) < MaxReactions
        /\ reactions' = Append(reactions, c)
        /\ CommitOf(c, m, Pending(OpName(c), p, args))
        /\ UNCHANGED <<number, timers, schedVars, waveform>>

\* write(value): open().then(drive).then(close).then(resolve).catch(reject)
write(p, value, failAt) == Begin("write", p, <<value>>, Turn(p, failAt), FALSE, 3)

\* static write(pin, value): new Pin(pin).write(value), pin being the number of p
staticWrite(p, value, failAt) ==
    Begin("write", p, <<value>>, NewPin(p, failAt), TRUE, 3)

\* The setHighFor calls of the line of p that have not released it yet.
Pulsing(p) ==
    Cardinality({i \in DOMAIN timers : timers[i].pin = p})
    + Cardinality({i \in DOMAIN reactions :
                      reactions[i].pin = p /\ reactions[i].op = "setHighFor"
                      /\ reactions[i].stage = "drive"})

\* setHighFor(duration, perSecond = 1000): open().then(drive and arm).catch(reject)
setHighFor(p, duration, perSecond, failAt) ==
    /\ Pulsing(p) < MaxTimers
    /\ DelayMs(duration, perSecond) <= MaxWait
    /\ Begin("setHighFor", p, <<duration, perSecond>>, Turn(p, failAt), FALSE, 1)

\* static setHighFor(pin, duration): new Pin(pin).setHighFor(duration)
staticSetHighFor(p, duration, failAt) ==
    /\ Pulsing(p) < MaxTimers
    /\ DelayMs(duration, 1000) <= MaxWait
    /\ Begin("setHighFor", p, <<duration, 1000>>, NewPin(p, failAt), TRUE, 1)

\* doPWM(pulseWidth, frequency, duration):
\* open().then(cycles).then(close).then(resolve).catch(reject)
doPWM(p, pulseWidth, frequency, duration, failAt) ==
    Begin("doPWM", p, <<pulseWidth, frequency, duration>>, Turn(p, failAt), FALSE, 3)

\* static doPWM(pin, pulseWidth, frequency, duration)
staticDoPWM(p, pulseWidth, frequency, duration, failAt) ==
    Begin("doPWM", p, <<pulseWidth, frequency, duration>>, NewPin(p, failAt), TRUE, 3)

\* A timer is due ms after its arming; waited is the time since, counted up
\* to MaxWait, so the time left is known while the timer is not due.
Remaining(t) == t.ms - t.waited

\* setTimeout(callback, t.ms).  Node keeps the timers of one delay in a list,
\* in the order they were armed, and the lists in a queue, ordered by the due
\* time of their first timer and then by the id of the list, a new list
\* taking the next id.  timers holds the lists one after the other in the
\* order of their ids; due is the rank of the timer's due time among the
\* pending timers (timers due at the same time share it).  The new timer
\* joins the list of its delay, or is a new list, the last.
Armed(t) ==
    LET sooner == Cardinality({timers[k].due :
                                  k \in {j \in DOMAIN timers : Remaining(timers[j]) < t.ms}})
        tied == \E k \in DOMAIN timers : Remaining(timers[k]) = t.ms
        later == [k \in DOMAIN timers |->
                    [timers[k] EXCEPT !.due = IF @ > sooner /\ ~tied THEN @ + 1 ELSE @]]
        at == IF \E k \in DOMAIN timers : timers[k].ms = t.ms
              THEN CHOOSE k \in DOMAIN timers :
                       /\ timers[k].ms = t.ms
                       /\ \A j \in k + 1 .. Len(timers) : timers[j].ms # t.ms
              ELSE Len(timers)
    IN  SubSeq(later, 1, at) \o <<[t EXCEPT !.due = sooner + 1]>>
            \o SubSeq(later, at + 1, Len(timers))

\* A run of the timers (processTimers) takes the time once: the timers due by
\* then are the ones it runs (run is "due"), one list after the other, and of
\* a list every such timer (run is "list" for those of the list being run)
\* before those of the next list.  A timer that falls due during the run waits
\* for the next.
InRun == \E k \in DOMAIN timers : timers[k].run # "none"

\* Timer i is the one to run next: the next of the list being run, or else
\* the first timer of the first list of the queue.
NextTimer(i) ==
    LET First(k) == \A j \in 1 .. k - 1 : timers[j].ms # timers[k].ms
    IN  /\ i \in DOMAIN timers
        /\ IF \E k \in DOMAIN timers : timers[k].run = "list"
           THEN timers[i].run = "list" /\ \A k \in 1 .. i - 1 : timers[k].run # "list"
           ELSE /\ First(i)
                /\ IF InRun THEN timers[i].run = "due" ELSE Remaining(timers[i]) <= 0
                /\ \A k \in DOMAIN timers :
                      First(k) => \/ timers[k].due > timers[i].due
                                 \/ (timers[k].due = timers[i].due /\ k >= i)

\* The timers left when timer i has run, the first of a run having taken the
\* time of the run.  When the next timer of its list is not one of the run
\* (listOnTimeout finds it not yet due), the list is queued again under a new
\* id: it becomes the last.
Fired(i) ==
    LET taken == [k \in DOMAIN timers |->
                    IF InRun THEN timers[k].run # "none" ELSE Remaining(timers[k]) <= 0]
        left == [k \in DOMAIN timers |->
                    [timers[k] EXCEPT !.run = IF ~taken[k] THEN "none"
                                              ELSE IF timers[k].ms = timers[i].ms THEN "list"
                                              ELSE "due"]]
        rest == SubSeq(left, 1, i - 1) \o SubSeq(left, i + 1, Len(left))
        queued == IF \E k \in DOMAIN rest : rest[k].run = "list" THEN rest
                  ELSE SelectSeq(rest, LAMBDA t : t.ms # timers[i].ms)
                           \o SelectSeq(rest, LAMBDA t : t.ms = timers[i].ms)
    IN  [k \in DOMAIN queued |->
            [queued[k] EXCEPT !.due =
                Cardinality({d \in {queued[j].due : j \in DOMAIN queued} : d < queued[k].due}) + 1]]

\* ms more have passed for every pending timer (the loops of doPWM and pwm
\* block for the whole ms of the microseconds they slept).
Waited(ms) ==
    [i \in DOMAIN timers |->
        [timers[i] EXCEPT !.waited = IF @ + ms > MaxWait THEN MaxWait ELSE @ + ms]]

\* The callback of a then whose promise was fulfilled has run as step m of
\* the operation c.  Its own promise settles with the outcome; on a throw the
\* rejection is passed down to the catch, the last of skip + 1 reactions.
Onward(c, rest, m, stage, wait, skip) ==
    /\ reactions' = Append(rest,
          IF m.err = "none"
          THEN Queued(c.op, c.pin, c.phase, stage, wait, m, c.args, c.transient)
          ELSE Queued(c.op, c.pin, c.phase, "settle", skip, m, c.args, c.transient))
    /\ CommitOf(c, m, PendingIn(OpName(c), c.pin, c.phase, c.args))

\* write: pin => { rpio.write(this.number, !!value ? rpio.HIGH : rpio.LOW); return pin }
WriteDrive(c, rest, failAt) ==
    LET m0 == TurnOf(c, failAt)
        m == RpioWrite(m0, IF c.args[1] THEN "HIGH" ELSE "LOW")
    IN  /\ Onward(c, rest, m, "release", 0, 2)
        /\ UNCHANGED <<number, timers, schedVars, waveform>>

\* setHighFor: pin => { rpio.write(pin.number, rpio.HIGH);
\*                      let ms = duration * 1000 / perSecond; setTimeout(..., ms) }
\* A throw goes to the catch, the next reaction.
SetHighForDrive(c, rest, failAt) ==
    LET m0 == TurnOf(c, failAt)
        m == RpioWrite(m0, "HIGH")
    IN  /\ IF m.err = "none"
           THEN /\ timers' = Armed(
                      [pin |-> c.pin, ms |-> DelayMs(c.args[1], c.args[2]), waited |-> 0,
                       run |-> "none", due |-> 0,
                       duration |-> c.args[1], perSecond |-> c.args[2],
                       transient |-> c.transient,
                       tstate |-> IF c.transient THEN m.state ELSE PinState.unknown])
                /\ reactions' = rest
                /\ CommitOf(c, m, PendingIn(OpName(c), c.pin, c.phase, c.args))
           ELSE /\ timers' = timers
                /\ Onward(c, rest, m, "settle", 0, 0)
        /\ UNCHANGED <<number, schedVars, waveform>>

\* doPWM: pin => { cycles, duration, antiPulseWidth, the check, the loop; return pin }
\* rpio.msleep blocks: the whole loop is in this one reaction.
DoPWMDrive(c, rest, failAt) ==
    \E m \in {Waveform(TurnOf(c, failAt), FALSE, c.args[1], c.args[2], c.args[3])} :
        /\ Onward(c, rest, m, "release", 0, 2)
        /\ timers' = Waited(m.slept \div 1000)
        /\ UNCHANGED <<number, schedVars, waveform>>

\* write: pin => pin.close(rpio.PIN_PRESERVE); doPWM: pin => pin.close().
\* The promise close returns is taken up in two more reactions, then
\* .then(resolve) runs; after a rejection one more passes it to the catch.
Release(c, rest, failAt) ==
    LET m0 == TurnOf(c, failAt)
        m == PinClose(m0, IF c.op = "write" THEN "PIN_PRESERVE" ELSE "undefined", FALSE)
    IN  /\ Onward(c, rest, m, "settle", 2, 3)
        /\ UNCHANGED <<number, timers, schedVars, waveform>>

\* A reaction without a callback for the outcome it is given.
PassOn(c, rest) ==
    /\ reactions' = Append(rest, [c EXCEPT !.wait = @ - 1])
    /\ hwLog' = c.log
    /\ result' = PendingIn(OpName(c), c.pin, c.phase, c.args)
    /\ UNCHANGED <<number, state, hw, timers, schedVars, waveform>>

\* write and setHighFor: new Promise((reject, resolve) => ...), the executor
\* calls its second parameter `resolve` and its first `reject`; doPWM:
\* new Promise((resolve, reject) => ...).
ThenResolve(op, v) ==
    IF op \in {"write", "setHighFor"} THEN ExecutorSecond(v) ELSE ExecutorFirst(v)

CatchReject(op, v) ==
    IF op \in {"write", "setHighFor"} THEN ExecutorFirst(v) ELSE ExecutorSecond(v)

\* .then(resolve) with the Pin, or .catch(reject) with the cause.  For a Pin
\* made by a static method the state it ended in is kept with the result.
Settle(c, rest) ==
    LET outcome == IF c.err = "none" THEN ThenResolve(c.op, "pin")
                   ELSE CatchReject(c.op, c.err)
        args == IF c.transient THEN Append(c.args, c.tstate) ELSE c.args
    IN  /\ reactions' = rest
        /\ hwLog' = c.log
        /\ result' = Settled(OpName(c), c.pin, c.phase, outcome, args)
        /\ UNCHANGED <<number, state, hw, timers, schedVars, waveform>>

\* The rpio calls the oldest reaction can make.
ReactionCalls(c) ==
    CASE c.stage = "settle" -> 0
      [] c.stage = "drive" /\ c.op = "doPWM" -> MaxCalls
      [] OTHER -> 1

\* The oldest queued reaction runs.
Reaction(failAt) ==
    /\ reactions # <<>>
    /\ LET c == Head(reactions)
           rest == Tail(reactions)
       IN  /\ failAt <= ReactionCalls(c)
           /\ CASE c.stage = "settle" /\ c.wait > 0 -> PassOn(c, rest)
                [] c.stage = "settle" /\ c.wait = 0 -> Settle(c, rest)
                [] c.stage = "drive" /\ c.op = "write" -> WriteDrive(c, rest, failAt)
                [] c.stage = "drive" /\ c.op = "setHighFor" -> SetHighForDrive(c, rest, failAt)
                [] c.stage = "drive" /\ c.op = "doPWM" -> DoPWMDrive(c, rest, failAt)
                [] c.stage = "release" -> Release(c, rest, failAt)

\* setTimeout(() => { pin.close().then(resolve).catch(reject) }, ms): a turn
\* of its own, once no reaction is left.  close() runs at once; .then(resolve)
\* is the next reaction, and after a rejection .catch(reject) the one after.
TimerFire(i, failAt) ==
    /\ reactions = <<>>
    /\ NextTimer(i)
    /\ LET t == timers[i]
           c == [op |-> "setHighFor", pin |-> t.pin, phase |-> "timer",
                 args |-> <<t.duration, t.perSecond, t.waited>>,
                 transient |-> t.transient, tstate |-> t.tstate, log |-> <<>>]
           m == PinClose(TurnOf(c, failAt), "undefined", FALSE)
       IN  /\ Onward(c, <<>>, m, "settle", 0, 1)
           /\ timers' = Fired(i)
    /\ UNCHANGED <<number, schedVars, waveform>>

\* pwm(pulseWidth, frequency, duration): the whole of it is in the executor.
pwm(p, pulseWidth, frequency, duration, failAt) ==
    LET m0 == Turn(p, failAt)
        args == <<pulseWidth, frequency, duration>>
    IN  IF ~PwmSupported(m0.number)
        THEN /\ Commit(p, m0, Settled("pwm", p, "call", ExecutorSecond("notsupported"), args))
             /\ UNCHANGED <<number, timers, reactions, schedVars, waveform>>
        ELSE LET m1 == RpioOpen(m0, "PWM")
                 m2 == Then(m1, [m1 EXCEPT !.state = PinState.unknown])
                 m3 == Then(m2, RpioPwmSetClockDivider(m2, PWMClockDivider))
                 m4 == Then(m3, RpioPwmSetRange(m3, PWMRange))
             IN  \E m5 \in {Then(m4, Waveform(m4, TRUE, pulseWidth, frequency, duration))} :
                     /\ timers' = Waited(m5.slept \div 1000)
                     /\ Commit(p, m5, Settled("pwm", p, "call",
                                              IF m5.err = "none"
                                              THEN ExecutorFirst(Cause(m5))
                                              ELSE ExecutorSecond(Cause(m5)), args))
                     /\ UNCHANGED <<number, reactions, schedVars, waveform>>

\* A millisecond passes between two turns while a timer is pending.
Tick ==
    /\ reactions = <<>>
    /\ timers # <<>>
    /\ \E i \in DOMAIN timers : timers[i].waited < MaxWait
    /\ timers' = Waited(1)
    /\ hwLog' = <<>>
    /\ result' = NoResult
    /\ UNCHANGED <<number, state, hw, reactions, schedVars, waveform>>

----------------------------------------------------------------------------
(* lib/pin.js: the Pin class that keeps no state.  It opens the line in     *)
(* every operation, inside one try block whose catch rejects.               *)

\* let ms = duration * perSecond / 1000, as setTimeout takes it: truncated
\* to whole ms, and 1 when below 1.
LibDelayMs(duration, perSecond) ==
    LET ms == (duration * perSecond) \div 1000
    IN  IF ms < 1 THEN 1 ELSE ms

\* An exception has left a timer callback uncaught: the process is gone.
Running == result.value # "uncaught"

\* write(value)
libWrite(p, value, failAt) ==
    LET m1 == RpioOpen(Turn(p, failAt), "OUTPUT")
        m2 == Then(m1, RpioWrite(m1, IF value THEN "HIGH" ELSE "LOW"))
        m3 == Then(m2, RpioClose(m2, "PIN_PRESERVE"))
        outcome == IF m3.err = "none" THEN ExecutorFirst(Cause(m3))
                   ELSE ExecutorSecond(Cause(m3))
    IN  /\ Commit(p, m3, Settled("write", p, "call", outcome, <<value>>))
        /\ UNCHANGED <<number, timers, reactions, schedVars, waveform>>

\* setHighFor(duration, perSecond = 1000), up to the arming of the timer
libSetHighFor(p, duration, perSecond, failAt) ==
    LET m1 == RpioOpen(Turn(p, failAt), "OUTPUT")
        m2 == Then(m1, RpioWrite(m1, "HIGH"))
        ms == LibDelayMs(duration, perSecond)
        args == <<duration, perSecond>>
    IN  /\ Cardinality({i \in DOMAIN timers : timers[i].pin = p}) < MaxTimers
        /\ ms <= MaxWait
        /\ IF m2.err = "none"
           THEN /\ timers' = Armed([pin |-> p, ms |-> ms, waited |-> 0, run |-> "none", due |-> 0,
                                      duration |-> duration, perSecond |-> perSecond])
                /\ Commit(p, m2, Pending("setHighFor", p, args))
           ELSE /\ timers' = timers
                /\ Commit(p, m2, Settled("setHighFor", p, "call",
                                         ExecutorSecond(Cause(m2)), args))
        /\ UNCHANGED <<number, reactions, schedVars, waveform>>

\* setTimeout((resolve, reject) => { try { rpio.close(...); return resolve(this) }
\* catch(e) { return reject(e) } }, ms): the timer passes its callback no
\* argument, so resolve and reject are undefined in it.  resolve(this) throws a
\* TypeError, or rpio.close has thrown; the catch then calls reject(e), which
\* throws a TypeError out of the callback.  The promise is not settled.
LibTimerFire(i, failAt) ==
    /\ NextTimer(i)
    /\ LET t == timers[i]
           m == RpioClose(Turn(t.pin, failAt), "PIN_RESET")
       IN  /\ Commit(t.pin, m, [op |-> "setHighFor", pin |-> t.pin, phase |-> "timer",
                                 status |-> "pending", value |-> "uncaught",
                                 args |-> <<t.duration, t.perSecond, t.waited>>])
           /\ timers' = Fired(i)
    /\ UNCHANGED <<number, reactions, schedVars, waveform>>

\* doPWM(pulseWidth, frequency, duration): after rpio.open,
\* Math.ceil(frequency * duration * perSecond / 1000) reads perSecond, which
\* is declared nowhere: a ReferenceError, caught, rejects.
libDoPWM(p, pulseWidth, frequency, duration, failAt) ==
    LET m1 == RpioOpen(Turn(p, failAt), "OUTPUT")
        m2 == Then(m1, [m1 EXCEPT !.err = "ReferenceError"])
    IN  /\ Commit(p, m2, Settled("doPWM", p, "call", ExecutorSecond(Cause(m2)),
                                 <<pulseWidth, frequency, duration>>))
        /\ UNCHANGED <<number, timers, reactions, schedVars, waveform>>

----------------------------------------------------------------------------
(* lib/schedule.js.  An event is an opaque function, named by a number; a   *)
(* time is a Date; a job handle is the job's place in the platform's list.  *)

Undefined == [kind |-> "undefined"]

\* events[i], times[i]: undefined outside the list
At(list, i) == IF i \in DOMAIN list THEN list[i] ELSE Undefined

\* new Date(ms)
NewDate(ms) == [kind |-> "date", ms |-> ms]

JobsList(items) == [kind |-> "list", items |-> items]

Ascending(k) == [i \in 1 .. k |-> i]
Descending(k) == [i \in 1 .. k |-> k + 1 - i]

\* Inputs: lists of distinct events, and lists of ms in either order
EventLists == {Ascending(k) : k \in 0 .. MaxLen}
MsLists == {Ascending(k) : k \in 0 .. MaxLen} \cup {Descending(k) : k \in 0 .. MaxLen}
Dates(msList) == [i \in DOMAIN msList |-> NewDate(msList[i])]

\* A slip: only a longer list of times is refused.
DimensionMismatchLonger(events, times) == Len(times) > Len(events)

\* if(times.length != length)
DimensionMismatch(events, times) == Len(times) # Len(events)

\* let job = schedule.scheduleJob(time, event): the platform lists the job
\* and hands back its handle.
ScheduleJob(reg, time, event) == Append(reg, [event |-> event, time |-> time])

\* A slip: jobs.unshift(job)
Unshift(jobs, job) == <<job>> \o jobs

\* jobs.push(job)
Push(jobs, job) == Append(jobs, job)

\* for(let i = 0; i < length; i++) { ... }, i counted from 1 here;
\* r is the platform's list and the jobs collected so far.
RECURSIVE ScheduleAll(_, _, _, _)
ScheduleAll(r, i, events, times) ==
    IF i > Len(events) THEN r
    ELSE LET reg == ScheduleJob(r.registered, At(times, i), At(events, i))
         IN  ScheduleAll([registered |-> reg, jobs |-> Push(r.jobs, Len(reg))],
                         i + 1, events, times)

\* scheduleEventsForTimes(events, times, callback): the platform's list
\* afterwards and the invocations of callback, each with its arguments and
\* the number of jobs listed when it was made.
EventsForTimes(reg, events, times) ==
    IF DimensionMismatch(events, times)
    THEN [registered |-> reg,
          callbacks |-> <<[err |-> "Error", jobs |-> Undefined, listed |-> Len(reg)]>>]
    ELSE LET r == ScheduleAll([registered |-> reg, jobs |-> <<>>], 1, events, times)
         IN  [registered |-> r.registered,
              callbacks |-> <<[err |-> "null", jobs |-> JobsList(r.jobs),
                               listed |-> Len(r.registered)]>>]

\* A slip: now += interval, each interval counted from the target before it
RECURSIVE SumTo(_, _)
SumTo(intervals, i) == IF i = 0 THEN 0 ELSE intervals[i] + SumTo(intervals, i - 1)

IntervalTimesRunning(clock, intervals) ==
    [i \in DOMAIN intervals |-> NewDate(clock + SumTo(intervals, i))]

\* A slip: new Date(interval), the interval taken for a time
IntervalTimesAbsolute(clock, intervals) ==
    [i \in DOMAIN intervals |-> NewDate(intervals[i])]

\* let now = Date.now(); times.push(new Date(now + interval)) for each interval
IntervalTimes(clock, intervals) ==
    [i \in DOMAIN intervals |-> NewDate(clock + intervals[i])]

\* scheduleEventsForIntervals(events, intervals, callback)
EventsForIntervals(reg, clock, events, intervals) ==
    EventsForTimes(reg, events, IntervalTimes(clock, intervals))

\* What the caller asked for with argument i of a call that scheduled: the
\* time itself, or the interval counted from the time of the call; an
\* argument the list does not hold (times[i] undefined) asks for no time.
NotBefore(fn, times, i) ==
    IF i \notin DOMAIN times THEN 0
    ELSE IF fn \in {"scheduleEventsForIntervals", "scheduleEventForInterval"}
    THEN now + times[i].ms
    ELSE times[i].ms

\* The jobs a call has added wait for their time, not yet fired.
Awaiting(fn, times, r) ==
    fired \o [i \in 1 .. Len(r.registered) - Len(registered) |->
                 [count |-> 0, notBefore |-> NotBefore(fn, times, i)]]

Called(fn, events, times, r) ==
    /\ Len(r.registered) <= MaxJobs
    /\ registered' = r.registered
    /\ callbacks' = r.callbacks
    /\ fired' = Awaiting(fn, times, r)
    /\ lastCall' = [fn |-> fn, events |-> events, times |-> times, now |-> now,
                    before |-> registered]
    /\ UNCHANGED <<now, pinVars, waveform>>

scheduleEventsForTimes(events, times) ==
    Called("scheduleEventsForTimes", events, times,
           EventsForTimes(registered, events, times))

\* scheduleEventForTime = (event, time, callback) =>
\*     exports.scheduleEventsForTimes([event], [time], callback)
scheduleEventForTime(event, time) ==
    Called("scheduleEventForTime", <<event>>, <<time>>,
           EventsForTimes(registered, <<event>>, <<time>>))

\* The intervals of a call as lastCall keeps them: numbers of ms, not Dates.
Intervals(intervals) == [i \in DOMAIN intervals |-> [kind |-> "ms", ms |-> intervals[i]]]

scheduleEventsForIntervals(events, intervals) ==
    Called("scheduleEventsForIntervals", events, Intervals(intervals),
           EventsForIntervals(registered, now, events, intervals))

\* scheduleEventForInterval = (event, interval, callback) =>
\*     exports.scheduleEventsForIntervals([event], [interval], callback)
scheduleEventForInterval(event, interval) ==
    Called("scheduleEventForInterval", <<event>>, Intervals(<<interval>>),
           EventsForIntervals(registered, now, <<event>>, <<interval>>))

NoCall == [fn |-> "none", events |-> <<>>, times |-> <<>>, now |-> 0, before |-> <<>>]

\* A millisecond passes; no call is made.
ClockTick ==
    /\ now < MaxTime
    /\ now' = now + 1
    /\ callbacks' = <<>>
    /\ lastCall' = NoCall
    /\ UNCHANGED <<registered, fired, pinVars, waveform>>

\* The platform runs job j.  node-schedule is not part of the sources; what
\* it does with a job is taken from the specification's life of a Job: it
\* "fires exactly once at (or as close as the platform allows to) the target
\* time, then is considered terminal", the target being the Date the code
\* handed to schedule.scheduleJob.
JobFire(j) ==
    /\ j \in DOMAIN registered
    /\ fired[j].count = 0
    /\ registered[j].time.kind = "date"
    /\ now >= registered[j].time.ms
    /\ fired' = [fired EXCEPT ![j].count = @ + 1]
    /\ callbacks' = <<>>
    /\ lastCall' = NoCall
    /\ UNCHANGED <<now, registered, pinVars, waveform>>

----------------------------------------------------------------------------
InitSched ==
    /\ now = 0
    /\ registered = <<>>
    /\ callbacks = <<>>
    /\ lastCall = NoCall
    /\ fired = <<>>

\* new Pin(number): no hardware call, state unknown
InitPins(numbers) ==
    /\ number = numbers
    /\ state = [p \in DOMAIN numbers |-> PinState.unknown]
    /\ hw = [p \in DOMAIN numbers |-> HwIdle]
    /\ timers = <<>>
    /\ reactions = <<>>
    /\ hwLog = <<>>
    /\ result = NoResult

\* One Pin instance, of either number.
Init ==
    /\ \E n \in PinNumbers : InitPins(<<n>>)
    /\ InitSched
    /\ waveform = NoWaveform

\* The oldest reaction runs, any one rpio call of it throwing or none.
React ==
    /\ reactions # <<>>
    /\ \E failAt \in 0 .. ReactionCalls(Head(reactions)) : Reaction(failAt)

\* One Pin.  The caller starts write and setHighFor when what it started
\* before has run; open and close it also calls right after another call,
\* before the reactions of that call run.
Next ==
    \/ Calling /\ \E p \in Pins, force \in Booleans, failAt \in 0 .. 1 : open(p, force, failAt)
    \/ Calling /\ \E p \in Pins, then \in Thens, force \in Booleans, failAt \in 0 .. 1 :
                     close(p, then, force, failAt)
    \/ Awaited /\ \E p \in Pins, value \in Booleans, failAt \in 0 .. 1 :
                     write(p, value, failAt)
    \/ Awaited /\ \E p \in Pins, d \in Delays, failAt \in 0 .. 1 :
                     setHighFor(p, d[1], d[2], failAt)
    \/ \E i \in DOMAIN timers, failAt \in 0 .. 1 : TimerFire(i, failAt)
    \/ React
    \/ Tick

Spec == Init /\ [][Next]_vars

\* One Pin and the static methods called with its number, each when what
\* was started before has run.
NextStatic ==
    \/ Calling /\ \E p \in Pins, force \in Booleans, failAt \in 0 .. 1 : open(p, force, failAt)
    \/ Awaited /\ \E p \in Pins, value \in Booleans, failAt \in 0 .. 1 :
                     staticWrite(p, value, failAt)
    \/ Awaited /\ \E p \in Pins, failAt \in 0 .. 1 : staticSetHighFor(p, 1, failAt)
    \/ Awaited /\ \E p \in Pins, w \in Waveforms, failAt \in 0 .. 1 :
                     staticDoPWM(p, w[1], w[2], w[3], failAt)
    \/ \E i \in DOMAIN timers, failAt \in 0 .. 1 : TimerFire(i, failAt)
    \/ React
    \/ Tick

StaticSpec == Init /\ [][NextStatic]_vars

\* One Pin driven with waveforms, each when what was started before has
\* run; close is also called right after another call.
NextPwm ==
    \/ Calling /\ \E p \in Pins, failAt \in 0 .. 1 : close(p, "undefined", TRUE, failAt)
    \/ Awaited /\ \E p \in Pins, w \in Waveforms, failAt \in 0 .. 1 :
                     doPWM(p, w[1], w[2], w[3], failAt)
    \/ Awaited /\ \E p \in Pins, w \in Waveforms : \E failAt \in 0 .. 3 + MaxCalls :
                     pwm(p, w[1], w[2], w[3], failAt)
    \/ React

PwmSpec == Init /\ [][NextPwm]_vars

\* One Pin, write, setHighFor and doPWM started in one turn or one after the
\* other: their reactions run in the order they were queued, those of one
\* operation between those of another.
NextTurn ==
    \/ Calling /\ \E p \in Pins, value \in Booleans, failAt \in 0 .. 1 :
                     write(p, value, failAt)
    \/ Calling /\ \E p \in Pins, failAt \in 0 .. 1 : setHighFor(p, 1, 1000, failAt)
    \/ Calling /\ \E p \in Pins, failAt \in 0 .. 1 : doPWM(p, 1, 500, 3, failAt)
    \/ \E i \in DOMAIN timers, failAt \in 0 .. 1 : TimerFire(i, failAt)
    \/ React
    \/ Tick

TurnSpec == Init /\ [][NextTurn]_vars

\* Two Pin instances of different numbers, writing and pulsing.
InitTwoPins ==
    /\ InitPins(<<DefaultPin, HardwarePWMPin>>)
    /\ InitSched
    /\ waveform = NoWaveform

\* No reaction of Pin p is queued: what was started on p has run.
AwaitedOn(p) == \A i \in DOMAIN reactions : reactions[i].pin # p

\* The first Pin pulses for 2 ms and drives a waveform; the second writes
\* and pulses for 1 ms meanwhile, also in the same turn.
NextTwoPins ==
    \/ \E value \in Booleans, failAt \in 0 .. 1 : AwaitedOn(2) /\ write(2, value, failAt)
    \/ \E failAt \in 0 .. 1 : AwaitedOn(1) /\ doPWM(1, 1, 500, 3, failAt)
    \/ \E failAt \in 0 .. 1 : AwaitedOn(1) /\ setHighFor(1, 1, 500, failAt)
    \/ \E failAt \in 0 .. 1 : AwaitedOn(2) /\ setHighFor(2, 1, 1000, failAt)
    \/ \E i \in DOMAIN timers, failAt \in 0 .. 1 : TimerFire(i, failAt)
    \/ React
    \/ Tick

TwoPinSpec == InitTwoPins /\ [][NextTwoPins]_vars

\* One Pin of lib/pin.js, until an uncaught exception ends the process.
NextLib ==
    /\ Running
    /\ \/ \E p \in Pins, value \in Booleans, failAt \in 0 .. 3 : libWrite(p, value, failAt)
       \/ \E p \in Pins, d \in Delays, failAt \in 0 .. 2 :
             libSetHighFor(p, d[1], d[2], failAt)
       \/ \E i \in DOMAIN timers, failAt \in 0 .. 1 : LibTimerFire(i, failAt)
       \/ \E p \in Pins, w \in Waveforms, failAt \in 0 .. 1 :
             libDoPWM(p, w[1], w[2], w[3], failAt)
       \/ Tick

LibSpec == Init /\ [][NextLib]_vars

\* The scheduler alone: no Pin is constructed.
InitSchedule ==
    /\ InitPins(<<>>)
    /\ InitSched
    /\ waveform = NoWaveform

NextSchedule ==
    \/ \E events \in EventLists, ms \in MsLists : scheduleEventsForTimes(events, Dates(ms))
    \/ \E event \in 1 .. MaxLen, ms \in 1 .. MaxLen : scheduleEventForTime(event, NewDate(ms))
    \/ \E events \in EventLists, ms \in MsLists : scheduleEventsForIntervals(events, ms)
    \/ \E event \in 1 .. MaxLen, ms \in 1 .. MaxLen : scheduleEventForInterval(event, ms)
    \/ ClockTick

SchedSpec == InitSchedule /\ [][NextSchedule]_vars

\* The waveform computation alone: frequency > 0 and duration > 0, and a
\* pulseWidth that is whole, a fraction (the routes' default is 1.5) or
\* negative, which leaves room for the low time whatever its size.
WaveFrequencies == {15, 50, 200}

WavePulseWidths ==
    {Decimal(k, 1) : k \in 1 .. MaxPulseWidth}
    \cup {Decimal(3, 2), Decimal(1, 10), Decimal(-3, 2), Decimal(-2000, 1), Decimal(-10000, 1)}

InitWave ==
    /\ InitPins(<<>>)
    /\ InitSched
    /\ \E pulseWidth \in WavePulseWidths, frequency \in WaveFrequencies,
          duration \in 1 .. MaxDuration :
           waveform = Asked(pulseWidth, frequency, duration)

NextWave == computeWaveform

WaveSpec == InitWave /\ [][NextWave]_vars

\* The scheduler with the platform running the jobs.  The clock of the model
\* stops at MaxTime, so only jobs due by then are scheduled; and what the
\* platform does with a Date that is not ahead of the clock is not told, so
\* the calls hand it none.
DueInTime ==
    \A j \in DOMAIN registered' :
        j \in DOMAIN registered \/ registered'[j].time.ms \in now + 1 .. MaxTime

NextFire ==
    \/ \E events \in EventLists, ms \in MsLists :
          scheduleEventsForTimes(events, Dates(ms)) /\ DueInTime
    \/ \E event \in 1 .. MaxLen, ms \in 1 .. MaxLen :
          scheduleEventForTime(event, NewDate(ms)) /\ DueInTime
    \/ \E events \in EventLists, ms \in MsLists :
          scheduleEventsForIntervals(events, ms) /\ DueInTime
    \/ \E event \in 1 .. MaxLen, ms \in 1 .. MaxLen :
          scheduleEventForInterval(event, ms) /\ DueInTime
    \/ ClockTick
    \/ \E j \in 1 .. MaxJobs : JobFire(j)

\* The clock runs on, and the platform does run a job that is due ("fires
\* exactly once"): the fairness is the specification's word on the platform,
\* as the firing is.
FireSpec ==
    /\ InitSchedule
    /\ [][NextFire]_vars
    /\ WF_vars(ClockTick)
    /\ WF_vars(\E j \in 1 .. MaxJobs : JobFire(j))

----------------------------------------------------------------------------
(* Properties of Pin, checked under Spec, StaticSpec, PwmSpec and TurnSpec *)

Last(seq) == seq[Len(seq)]

AllOk(log) == \A i \in DOMAIN log : log[i].ok

Released == hwLog # <<>> /\ Last(hwLog).call = "close" /\ Last(hwLog).ok

\* The promise of the last step's operation is settled.
Done == result.status \in {"fulfilled", "rejected"}

\* C1: a Pin's state is Open only while its hardware line is claimed for
\* output, and once close() has released the line the state is Closed.
C1_OpenOnlyUntilClose ==
    \A p \in Pins :
        /\ state[p] = PinState.open => hw[p].mode = "OUTPUT"
        /\ (result.pin = p /\ Released) => state[p] = PinState.closed

\* C2: every rpio.write made by write, setHighFor or doPWM happens while the
\* hardware line is claimed (opened and not closed since).
C2_DriveOnlyWhileClaimed ==
    result.op \in {"write", "setHighFor", "doPWM"} =>
        \A i \in DOMAIN hwLog : hwLog[i].call = "write" => hwLog[i].claimed

\* C3: the promise of write and setHighFor is fulfilled with the Pin exactly
\* when every hardware call of the operation succeeded, and rejected with the
\* cause exactly when one failed.
C3_OutcomeMatchesHardware ==
    (result.op \in {"write", "setHighFor"} /\ Done) =>
        IF AllOk(hwLog)
        THEN result.status = "fulfilled" /\ result.value = "pin"
        ELSE result.status = "rejected" /\ result.value = "hwerror"

\* C4: doPWM and pwm called with a waveform whose low width is <= 0 reject
\* with the configuration error, and when the promise is settled the
\* operation has made no hardware call at all.
C4_NoHardwareOnBadWaveform ==
    ( /\ result.op \in {"doPWM", "pwm"}
      /\ Done
      /\ result.op = "pwm" => number[result.pin] = 12
      /\ LET pulseWidth == result.args[1]
             frequency == result.args[2]
             duration == result.args[3]
             cycles == -((-(frequency * duration)) \div 1000)
         IN  \* lowWidth = (cycles / frequency * 1000 - cycles * pulseWidth) / cycles <= 0
             /\ cycles # 0
             /\ frequency # 0
             /\ IF frequency > 0 THEN 1000 - pulseWidth * frequency <= 0
                ELSE 1000 - pulseWidth * frequency >= 0 )
    => /\ result.status = "rejected"
       /\ result.value = "configerror"
       /\ hwLog = <<>>

\* C8: setHighFor claims the pin at once and drives it high in its first
\* reaction, without waiting for the delay, leaving its promise pending with
\* the timer armed; the release happens no earlier than duration * 1000 /
\* perSecond ms later, and only it settles the promise; and once that release
\* has succeeded the Pin's state is Closed.
C8_SetHighForDelay ==
    result.op = "setHighFor" =>
        /\ (result.phase = "call" /\ AllOk(hwLog)) =>
              /\ result.status = "pending"
              /\ state[result.pin] = PinState.open
        /\ (result.phase = "reaction" /\ result.status = "pending" /\ reactions = <<>>) =>
              /\ \E i \in DOMAIN timers : timers[i].pin = result.pin
              /\ hw[result.pin].level = "HIGH"
        /\ (Done /\ AllOk(hwLog)) => result.phase = "timer"
        /\ result.phase = "timer" =>
              /\ result.args[3] * result.args[2] >= result.args[1] * 1000
              /\ hwLog # <<>> => Last(hwLog).call = "close"
              /\ Released => state[result.pin] = PinState.closed

\* C9: when the hardware claim inside open() or the hardware release inside
\* close() fails, the Pin's state becomes Unknown, and open() / close()
\* reject with the cause.
C9_FailedTransitionUnknown ==
    \A i \in DOMAIN hwLog :
        ( /\ ~hwLog[i].ok
          /\ \/ hwLog[i].call = "open" /\ hwLog[i].arg = "OUTPUT"
             \/ hwLog[i].call = "close" )
        => /\ state[result.pin] = PinState.unknown
           /\ result.op \in {"open", "close"} =>
                 result.status = "rejected" /\ result.value = "hwerror"

\* C10: pwm on a Pin whose number is not 12 rejects with the not-supported
\* error, makes no hardware call and leaves the Pin's state (and the
\* hardware line) as they were.
C10_PwmOnlyOnPin12 ==
    [][ \A p \in Pins :
          (result'.op = "pwm" /\ result'.pin = p /\ number[p] # 12) =>
              /\ result'.status = "rejected"
              /\ result'.value = "notsupported"
              /\ hwLog' = <<>>
              /\ state'[p] = state[p]
              /\ hw'[p] = hw[p] ]_vars

C10_Witness ==
    /\ result.op = "pwm"
    /\ number[result.pin] = 7
    /\ result.value = "notsupported"
    /\ state[result.pin] = PinState.open
    /\ hw[result.pin].mode = "OUTPUT"

\* C11: a successful write(v) makes exactly the calls rpio.open (output),
\* rpio.write (HIGH if v, else LOW) and rpio.close (preserve), in that order;
\* the line is then released and holds the commanded level; and the Pin
\* that wrote is Closed.
C11_WriteOpenDriveClosePreserve ==
    (result.op \in {"write", "Pin.write"} /\ Done /\ hwLog # <<>> /\ AllOk(hwLog)) =>
        LET level == IF result.args[1] THEN "HIGH" ELSE "LOW"
            after == IF result.op = "write" THEN state[result.pin] ELSE result.args[2]
        IN  /\ Len(hwLog) = 3
            /\ hwLog[1].call = "open" /\ hwLog[1].arg = "OUTPUT"
            /\ hwLog[2].call = "write" /\ hwLog[2].arg = level
            /\ hwLog[3].call = "close" /\ hwLog[3].arg = "PIN_PRESERVE"
            /\ hw[result.pin] = [mode |-> "none", level |-> level]
            /\ after = PinState.closed

\* C13: a close() without force that follows a successful close() of the
\* same Pin makes no rpio call, fulfils, and leaves the state Closed.
C13_RepeatedCloseNoOp ==
    [][ ( /\ result.op = "close" /\ result.status = "fulfilled"
          /\ result'.op = "close" /\ result'.pin = result.pin
          /\ result'.args = <<FALSE>> )
        => /\ hwLog' = <<>>
           /\ result'.status = "fulfilled"
           /\ state'[result.pin] = PinState.closed ]_vars

\* C14: a doPWM call with frequency <= 0 or duration <= 0, no rpio call of
\* which fails, makes no drive call and fulfils.
C14_DegenerateWaveformNoOp ==
    ( /\ result.op = "doPWM"
      /\ Done
      /\ result.args[2] <= 0 \/ result.args[3] <= 0
      /\ AllOk(hwLog) )
    => /\ \A i \in DOMAIN hwLog : hwLog[i].call # "write"
       /\ result.status = "fulfilled"
       /\ result.value = "pin"

\* C17: a doPWM call with frequency > 0 and duration > 0 that fulfils has
\* made, after its rpio.open (if the Pin was not Open already), exactly
\* ceil(frequency * duration / 1000) pairs rpio.write HIGH, rpio.write LOW on
\* its own pin and then rpio.close with PIN_RESET, every one succeeding, and
\* nothing else; the pairs are made in one step, so that no call of another
\* operation started in the same turn, or of a pending setHighFor timer,
\* comes between them.
C17_PwmCyclesRunToCompletion ==
    /\ ( /\ result.op = "doPWM"
         /\ result.status = "fulfilled"
         /\ result.args[2] > 0 /\ result.args[3] > 0 ) =>
           LET n == -((-(result.args[2] * result.args[3])) \div 1000)
               k == IF hwLog # <<>> /\ hwLog[1].call = "open" THEN 1 ELSE 0
           IN  /\ Len(hwLog) = k + 2 * n + 1
               /\ \A i \in 1 .. n :
                     /\ hwLog[k + 2 * i - 1].call = "write"
                     /\ hwLog[k + 2 * i - 1].arg = "HIGH"
                     /\ hwLog[k + 2 * i].call = "write"
                     /\ hwLog[k + 2 * i].arg = "LOW"
               /\ Last(hwLog).call = "close" /\ Last(hwLog).arg = "PIN_RESET"
               /\ \A i \in DOMAIN hwLog :
                     hwLog[i].pin = number[result.pin] /\ hwLog[i].ok
               /\ result.value = "pin"
    /\ \A i \in DOMAIN reactions :
          LET c == reactions[i]
              writes == {j \in DOMAIN c.log : c.log[j].call = "write"}
          IN  (c.op = "doPWM" /\ c.err = "none" /\ c.stage # "drive"
               /\ c.args[2] > 0 /\ c.args[3] > 0) =>
                  Cardinality(writes) = 2 * (-((-(c.args[2] * c.args[3])) \div 1000))

\* A write was started in the same turn, after the doPWM, and a setHighFor
\* timer of the same Pin fell due while doPWM was blocking and is still
\* waiting to run: the write's drive came after the last LOW of the doPWM
\* and before the doPWM's release, the write's release after it.
C17_Witness ==
    /\ result.op = "doPWM"
    /\ result.status = "fulfilled"
    /\ result.args = <<1, 500, 3>>
    /\ Len(hwLog) = 5
    /\ timers # <<>>
    /\ timers[1].pin = result.pin
    /\ timers[1].waited >= timers[1].ms
    /\ reactions # <<>>
    /\ reactions[1].op = "write"
    /\ reactions[1].args = <<TRUE>>
    /\ Len(reactions[1].log) = 2
    /\ reactions[1].log[1].claimed
    /\ ~reactions[1].log[2].claimed

\* C20: when the promise of write, setHighFor or doPWM settles after the
\* operation has claimed the line (its rpio.open succeeded), and no
\* rpio.close of it has failed, the line is released.
C20_SettledMeansReleased ==
    ( /\ result.op \in {"write", "setHighFor", "doPWM"}
      /\ Done
      /\ \E i \in DOMAIN hwLog : hwLog[i].call = "open" /\ hwLog[i].ok
      /\ \A i \in DOMAIN hwLog : hwLog[i].call = "close" => hwLog[i].ok )
    => ~Claimed(hw[result.pin])

----------------------------------------------------------------------------
(* Properties of the Pin of lib/pin.js, checked under LibSpec *)

\* C19: once the timer of a setHighFor has run, and the reactions it queued
\* (if any), the promise setHighFor returned is settled, fulfilled or
\* rejected, whether rpio.close succeeded or threw.
C19_SetHighForSettles ==
    (result.op = "setHighFor" /\ result.phase = "timer" /\ reactions = <<>>) =>
        result.status \in {"fulfilled", "rejected"}

----------------------------------------------------------------------------
(* Properties of two Pins, checked under TwoPinSpec *)

\* C18: a step of one Pin (of a write, a setHighFor, a doPWM, the delayed
\* close of a setHighFor) leaves the state, the claim and the level of every Pin of
\* another number as they were, also while that other Pin's setHighFor is
\* waiting for its timer.
C18_PinsIndependent ==
    [][ \A q \in Pins :
          (result'.pin \in Pins /\ result'.pin # q /\ number[q] # number[result'.pin]) =>
              /\ state'[q] = state[q]
              /\ hw'[q] = hw[q] ]_vars

\* While the setHighFor of the first Pin waits (claimed, high), a setHighFor
\* of the second has started and run to its delayed close.
C18_Witness ==
    /\ \E i \in DOMAIN timers : timers[i].pin = 1
    /\ state[1] = PinState.open
    /\ hw[1] = [mode |-> "OUTPUT", level |-> "HIGH"]
    /\ result.op = "setHighFor" /\ result.pin = 2 /\ result.phase = "timer"
    /\ Released
    /\ hw[2].mode = "none"

----------------------------------------------------------------------------
(* Properties of the scheduler, checked under SchedSpec *)

BatchCall == lastCall.fn \in {"scheduleEventsForTimes", "scheduleEventsForIntervals"}

SingularCall == lastCall.fn \in {"scheduleEventForTime", "scheduleEventForInterval"}

\* C5: a batch call with lists of unequal length invokes the callback exactly
\* once, with an error and no jobs, and registers no job at all.
C5_MismatchSchedulesNothing ==
    (BatchCall /\ Len(lastCall.events) # Len(lastCall.times)) =>
        /\ Len(callbacks) = 1
        /\ callbacks[1].err = "Error"
        /\ callbacks[1].jobs = Undefined
        /\ callbacks[1].listed = Len(lastCall.before)
        /\ registered = lastCall.before

C5_Witness ==
    /\ lastCall.fn = "scheduleEventsForIntervals"
    /\ Len(lastCall.events) = 2
    /\ Len(lastCall.times) = 1
    /\ Len(callbacks) = 1
    /\ registered # <<>>

\* C6: scheduleEventsForTimes with lists of equal length n registers exactly
\* n jobs, job i being events[i] at times[i], and invokes the callback once,
\* after all n registrations, with no error and the n handles in index order.
C6_EqualLengthsScheduleAll ==
    (lastCall.fn = "scheduleEventsForTimes" /\ Len(lastCall.events) = Len(lastCall.times)) =>
        LET n == Len(lastCall.events)
            before == Len(lastCall.before)
        IN  /\ Len(registered) = before + n
            /\ SubSeq(registered, 1, before) = lastCall.before
            /\ \A i \in 1 .. n :
                  registered[before + i] =
                      [event |-> lastCall.events[i], time |-> lastCall.times[i]]
            /\ Len(callbacks) = 1
            /\ callbacks[1].err = "null"
            /\ callbacks[1].jobs = [kind |-> "list", items |-> [i \in 1 .. n |-> before + i]]
            /\ callbacks[1].listed = before + n

C6_Witness ==
    /\ lastCall.fn = "scheduleEventsForTimes"
    /\ lastCall.events = <<1, 2>>
    /\ lastCall.times = <<[kind |-> "date", ms |-> 2], [kind |-> "date", ms |-> 1]>>
    /\ Len(registered) = 2
    /\ callbacks[1].jobs.items = <<1, 2>>

\* C7: on success the singular entry points hand the callback the job handle
\* itself, not a list; the batch entry points hand it a list.
C7_SingularGetsScalar ==
    (callbacks # <<>> /\ callbacks[1].err = "null") =>
        /\ SingularCall => callbacks[1].jobs.kind = "job"
        /\ BatchCall => callbacks[1].jobs.kind = "list"

\* C12: a job, once registered, is never changed or registered again; its
\* event is invoked at most once, and not before the time its schedule call
\* asked for (for an interval d: the time of the call + d); and every job
\* is invoked in the end.
C12_JobFiresOnceNotEarly ==
    /\ [][ \A j \in DOMAIN registered :
              /\ j \in DOMAIN registered' /\ registered'[j] = registered[j]
              /\ fired'[j].notBefore = fired[j].notBefore
              /\ fired'[j].count \in {fired[j].count, 1}
              /\ fired'[j].count # fired[j].count => now >= fired[j].notBefore
       ]_vars
    /\ \A j \in 1 .. MaxJobs :
          [](j \in DOMAIN registered => <>(j \in DOMAIN fired /\ fired[j].count = 1))

\* A job asked for time 1 has fired at time 1, and scheduleEventForInterval,
\* called at time 1 with 1 ms, has handed the platform the Date of time 2.
C12_Witness ==
    /\ Len(registered) = 2
    /\ fired[1].count = 1
    /\ fired[1].notBefore = 1
    /\ now = 1
    /\ lastCall.fn = "scheduleEventForInterval"
    /\ lastCall.now = 1
    /\ registered[2].time.ms = 2
    /\ fired[2].notBefore = 2
    /\ fired[2].count = 0

\* C15: scheduleEventsForIntervals with lists of equal length registers
\* events[i] at the time of the call + intervals[i], the one clock reading
\* serving every i, so that two targets differ by exactly the difference of
\* their intervals; events and order are those given, and the callback is
\* invoked as by scheduleEventsForTimes.
C15_IntervalsShareOneNow ==
    ( /\ lastCall.fn = "scheduleEventsForIntervals"
      /\ Len(lastCall.events) = Len(lastCall.times) ) =>
        LET n == Len(lastCall.events)
            before == Len(lastCall.before)
        IN  /\ Len(registered) = before + n
            /\ \A i \in 1 .. n :
                  /\ registered[before + i].event = lastCall.events[i]
                  /\ registered[before + i].time =
                        [kind |-> "date", ms |-> lastCall.now + lastCall.times[i].ms]
            /\ \A i, j \in 1 .. n :
                  registered[before + i].time.ms - registered[before + j].time.ms
                      = lastCall.times[i].ms - lastCall.times[j].ms
            /\ Len(callbacks) = 1
            /\ callbacks[1].err = "null"
            /\ callbacks[1].jobs.items = [i \in 1 .. n |-> before + i]

C15_Witness ==
    /\ lastCall.fn = "scheduleEventsForIntervals"
    /\ lastCall.now = 1
    /\ Len(lastCall.times) = 2
    /\ lastCall.times[1].ms = 2 /\ lastCall.times[2].ms = 1
    /\ Len(registered) = 2
    /\ registered[1].time.ms = 3 /\ registered[2].time.ms = 2

----------------------------------------------------------------------------
(* Properties of the waveform computation, checked under WaveSpec *)

\* x + y
NumberAdd(x, y) == NumberSub(x, Number(~y.neg, y.d))

\* cycles * sum
Times(cycles, sum) == Number((cycles < 0) # sum.neg, DMul(DInt(Abs(cycles)), sum.d))

\* cycles * (pulseWidth + antiPulseWidth), as JavaScript computes it
WholeWaveform ==
    Times(waveform.cycles, NumberAdd(waveform.args[1], waveform.antiPulseWidth))

\* The exponent of the unit in the last place of the larger of x and y, x > 0
Ulp(x, y) == IF y.m = <<>> \/ x.e >= y.e THEN x.e ELSE y.e

\* x and y are no more than 8 * 2^ulp apart.
Near(x, y, ulp) ==
    LET e == Min(Min(x.d.e, y.d.e), ulp)
        a == BigShl(x.d.m, x.d.e - e)
        b == BigShl(y.d.m, y.d.e - e)
        gap == IF x.neg # y.neg THEN BigAdd(a, b)
               ELSE IF BigCmp(a, b) >= 0 THEN BigSub(a, b) ELSE BigSub(b, a)
    IN  BigCmp(gap, BigShl(BigOf(8), ulp - e)) <= 0

\* The duration asked for
AskedDuration == NumberOf(waveform.args[3])

\* cycles * pulseWidth, as line 84 computes it
HighTime == DMul(DInt(waveform.cycles), waveform.args[1].d)

\* C16 as stated: for a waveform with frequency > 0, duration > 0 and
\* antiPulseWidth > 0, cycles * (pulseWidth + antiPulseWidth) equals the
\* duration the code computes (cycles / frequency * 1000), and that duration
\* is at least the duration asked for.
C16_WaveformIdentityExact ==
    (waveform.done /\ waveform.positive) =>
        /\ WholeWaveform = waveform.duration
        /\ DCmp(waveform.duration.d, AskedDuration.d) >= 0

\* C16, amended: the two agree up to the rounding of the floating-point
\* operations, 8 units in the last place of the larger of the computed
\* duration and |cycles * pulseWidth|; and the computed duration is at least
\* the duration asked for, up to 8 units in the last place.
C16_WaveformIdentityRounded ==
    (waveform.done /\ waveform.positive) =>
        /\ Near(WholeWaveform, waveform.duration, Ulp(waveform.duration.d, HighTime))
        /\ \/ DCmp(waveform.duration.d, AskedDuration.d) >= 0
           \/ Near(waveform.duration, AskedDuration,
                   Ulp(AskedDuration.d, waveform.duration.d))

\* doPWM(-2000, 15, 134): 3 cycles, duration 200, antiPulseWidth
\* 2066.6666666666665, and 3 * (-2000 + antiPulseWidth) is 16 units in the
\* last place of 200 below it, half a unit in the last place of 6000.
C16_Witness ==
    /\ waveform.args = <<Decimal(-2000, 1), 15, 134>>
    /\ waveform.done
    /\ waveform.positive
    /\ waveform.cycles = 3
    /\ WholeWaveform # waveform.duration
    /\ ~Near(WholeWaveform, waveform.duration, waveform.duration.d.e)
    /\ Near(WholeWaveform, waveform.duration, Ulp(waveform.duration.d, HighTime))

====
